---- MODULE Spec2Model ----
(***************************************************************************)
(* State-machine model of astroid/builder.py: the AstroidBuilder that      *)
(* turns a source file or string into a Module node, registers it in the   *)
(* manager's cache, resolves the deferred from-import and attribute        *)
(* assignment nodes and finally runs the transforms.                       *)
(*                                                                         *)
(* All building is one synchronous call chain, so the model keeps a call   *)
(* stack of _post_build activations; only the top activation takes steps.  *)
(* A nested activation appears when a wildcard import makes the manager    *)
(* build the imported module.                                              *)
(***************************************************************************)
EXTENDS Integers, Sequences, FiniteSets, TLC

VARIABLES
  astroid_cache,  \* the manager's registry: module name -> module id, 0 = absent
  modules,        \* the Module nodes built so far, indexed by module id
  tables,         \* symbol tables: <<module id, table name>> -> (name -> binding list)
  stack,          \* the _post_build activations, the last one is running
  outcome,        \* what the last finished top-level build gave to its caller
  ev              \* the last step taken (which handler, on which record)

vars == <<astroid_cache, modules, tables, stack, outcome, ev>>

(***************************************************************************)
(* Bounds of the model.                                                    *)
(***************************************************************************)
\* Module nodes built in one session of the manager
MaxBuilds == 2
\* attribute assignments of the module whose resolution SpecAttr follows
MaxAttrs == 3
\* attribute assignments of the module whose candidates SpecCands follows
MaxAssattr == 2

\* how many deferred records (from-imports plus attribute assignments) the
\* modules of one session of Spec hold together
RecordCounts == {0, 1, 2}

MostRecords == CHOOSE n \in RecordCounts : \A m \in RecordCounts : m <= n

\* how many candidates the oracle yields for one attribute assignment in Spec
FewCands == {0, 1}

\* how many it yields in SpecCands
ManyCands == {0, 1, 2}

None == "None"

\* names under which modules are looked up and registered
Names == {"M", "N"}

SeqUpTo(S, n) == UNION {[1..k -> S] : k \in 0..n}

Range(s) == {s[k] : k \in 1..Len(s)}

(***************************************************************************)
(* What the rebuilder hands over: the source programs the model draws.     *)
(* A module is a few from-imports (lines 1..), then "class a" with the     *)
(* methods __init__ and meth holding the attribute assignments, and a      *)
(* private name _p.                                                        *)
(***************************************************************************)
\* the from-import statements a module may hold: (modname, ((name, asname), ...))
ImportFromKinds ==
  {[modname |-> t, names |-> << <<"*", None>> >>] : t \in Names}
  \cup {[modname |-> "__future__", names |-> << <<"division", None>> >>],
        [modname |-> "N", names |-> << <<"b", "a">> >>]}

\* the attribute assignments a module may hold: expr.attrname = ... inside frame
AssignAttrKinds == [attrname : {"a"}, frame : {"__init__", "meth"}]

\* what slots() gives for a module's class "a": kind "None" when the class
\* declares no __slots__, "list" with the declared names, "NotImplementedError"
\* when the call raises it
Slots(kind, value) == [kind |-> kind, value |-> value]

SlotsOf == ("M" :> Slots("None", <<>>)) @@ ("N" :> Slots("list", <<"b">>))

\* the trees with at most n deferred records
Trees(n) ==
  {t \in [imports : SeqUpTo(ImportFromKinds, n),
          attrs : SeqUpTo(AssignAttrKinds, n)] :
     Len(t.imports) + Len(t.attrs) <= n}

\* line of the class statement: after every import
ClassLine == MostRecords + 1

\* a node of a tree: module id, kind, index among its kind, line, name of its frame
Node(b, kind, n, line, frame) ==
  [b |-> b, kind |-> kind, n |-> n, fromlineno |-> line, frame |-> frame]

ImportFromNode(b, n, name) == Node(b, "ImportFrom", n, n, name)

AssignAttrNode(b, n, frame) == Node(b, "AssignAttr", n, ClassLine + n, frame)

\* names that a wildcard import does not see
PrivateNames == {"_p"}

\* the tables of module b as the rebuilder leaves them
InitialTables(b, name) ==
  (<<b, "locals">> :>
      (("a" :> <<Node(b, "ClassDef", 1, ClassLine, "a")>>)
       @@ ("_p" :> <<Node(b, "AssignName", 1, ClassLine + MaxAttrs + MostRecords + 1, name)>>)))
  @@ (<<b, "a.locals">> :>
      (("__init__" :> <<Node(b, "FunctionDef", 1, ClassLine + 1, "__init__")>>)
       @@ ("meth" :> <<Node(b, "FunctionDef", 2, ClassLine + 1, "meth")>>)))
  @@ (<<b, "a.instance_attrs">> :> <<>>)
  @@ (<<b, "meth.instance_attrs">> :> <<>>)

(***************************************************************************)
(* Pure helpers of the builder.                                            *)
(***************************************************************************)
\* modname.endswith('.__init__') and modname[:-9], on the names the model passes
InitSuffixed == ("M.__init__" :> "M")

\* '.'.join(modutils.modpath_from_file(path)), and the file name's stem
ModpathFromFile == ("M.py" :> "M") @@ ("N.py" :> "N")

BasenameStem == ("M.py" :> "M") @@ ("N.py" :> "N")

\* os.path.abspath(path)
Abspath == ("M.py" :> "/M.py") @@ ("N.py" :> "/N.py")

\* the source file the manager finds for a module name
FileOfModule == ("M" :> "M.py") @@ ("N" :> "N.py")

\* file_build: the module name when the caller gives none
DerivedModname(path, import_error) ==
  IF import_error THEN BasenameStem[path] ELSE ModpathFromFile[path]

\* _data_build after a successful parse: the Module node the rebuilder returns
\* for tree t, with both deferred lists copied from the rebuilder
VisitModule(b, t, modname, path) ==
  LET name == IF modname \in DOMAIN InitSuffixed THEN InitSuffixed[modname] ELSE modname
      package == IF modname \in DOMAIN InitSuffixed THEN TRUE
                 ELSE FALSE  \* path.find('__init__.py') > -1: no such path is drawn
  IN [name |-> name,
      file |-> IF path # None THEN Abspath[path] ELSE "<?>",
      package |-> package,
      file_encoding |-> None,
      file_bytes |-> None,
      future_imports |-> {},
      slots |-> SlotsOf[name],
      _import_from_nodes |->
        [k \in 1..Len(t.imports) |->
           [modname |-> t.imports[k].modname, names |-> t.imports[k].names,
            node |-> ImportFromNode(b, k, name)]],
      _delayed_assattr |->
        [k \in 1..Len(t.attrs) |->
           [attrname |-> t.attrs[k].attrname,
            node |-> AssignAttrNode(b, k, t.attrs[k].frame)]]]

\* manager.cache_module(module)
cache_module(cache, name, b) == [cache EXCEPT ![name] = b]

\* scope.set_local(name, stmt): locals.setdefault(name, []).append(stmt)
set_local(tbl, name, stmt) ==
  IF name \in DOMAIN tbl THEN [tbl EXCEPT ![name] = Append(@, stmt)]
  ELSE tbl @@ (name :> <<stmt>>)

\* list.sort(key=fromlineno): a stable sort
RECURSIVE InsertByLine(_, _)
InsertByLine(sorted, x) ==
  IF sorted = <<>> THEN <<x>>
  ELSE IF sorted[Len(sorted)].fromlineno <= x.fromlineno THEN Append(sorted, x)
  ELSE Append(InsertByLine(SubSeq(sorted, 1, Len(sorted) - 1), x), sorted[Len(sorted)])

RECURSIVE SortedPrefix(_, _)
SortedPrefix(my_list, k) ==
  IF k = 0 THEN <<>> ELSE InsertByLine(SortedPrefix(my_list, k - 1), my_list[k])

SortLocalsSkipped(my_list) == my_list

sort_locals(my_list) == SortedPrefix(my_list, Len(my_list))

\* node.parent.set_local(name, node); sort_locals(node.parent.scope().locals[name])
BindAndSort(tbl, name, node) ==
  LET bound == set_local(tbl, name, node)
  IN [bound EXCEPT ![name] = sort_locals(@)]

\* imported.public_names(): the names of the module's locals that are not private
public_names(tbl) == {name \in DOMAIN tbl : name \notin PrivateNames}

\* the wildcard branch of add_from_names_to_locals once the module is imported
RECURSIVE BindNames(_, _, _)
BindNames(tbl, names, node) ==
  IF names = {} THEN tbl
  ELSE LET name == CHOOSE x \in names : TRUE
       IN BindNames(BindAndSort(tbl, name, node), names \ {name}, node)

\* the other branch, for every (name, asname) of the record: asname or name
RECURSIVE BindPairs(_, _, _)
BindPairs(tbl, pairs, node) ==
  IF pairs = <<>> THEN tbl
  ELSE LET name == Head(pairs)[1]
           asname == Head(pairs)[2]
       IN BindPairs(BindAndSort(tbl, IF asname # None THEN asname ELSE name, node),
                    Tail(pairs), node)

(***************************************************************************)
(* delayed_assattr: attribute assignments, resolved with the inference     *)
(* oracle.  The oracle's answer to node.expr.infer() is a finite sequence  *)
(* of candidates, after which it may raise InferenceError.                 *)
(***************************************************************************)
SkipTags == {"Uninferable", "Const", "EmptyNode"}

OwnerTags == {"Instance", "FunctionDef", "ClassDef", "Module"}

\* what infer() may yield when the modules bs can be reached
Candidates(bs) ==
  {[tag |-> t, b |-> 0] : t \in SkipTags}
  \cup {[tag |-> t, b |-> b] : t \in OwnerTags, b \in bs}

\* the answers of the oracle with n candidates
Answers(bs, n) == [cands : [1..n -> Candidates(bs)], raises : BOOLEAN]

NoTable == <<0, "None">>

\* _can_assign_attr(node, attrname) for a class whose slots() gives slots
_can_assign_attr(slots, attrname) ==
  IF slots.kind = "NotImplementedError" THEN TRUE
  ELSE IF slots.kind = "list" /\ slots.value # <<>> /\ attrname \notin Range(slots.value)
    THEN FALSE
  ELSE TRUE

\* the table delayed_assattr picks for one inferred candidate, NoTable when the
\* candidate is skipped
TargetTable(mods, inferred, attrname) ==
  IF inferred.tag = "Uninferable" THEN NoTable
  ELSE IF inferred.tag = "Instance"
    THEN IF ~_can_assign_attr(mods[inferred.b].slots, attrname) THEN NoTable
         ELSE <<inferred.b, "a.instance_attrs">>
  ELSE IF inferred.tag = "Const" THEN NoTable
  ELSE IF inferred.tag = "FunctionDef" THEN <<inferred.b, "meth.instance_attrs">>
  ELSE IF inferred.tag = "ClassDef" THEN <<inferred.b, "a.locals">>
  ELSE IF inferred.tag = "Module" THEN <<inferred.b, "locals">>
  ELSE NoTable  \* no is_function or no locals: AttributeError

\* values after the node is put into iattrs.setdefault(attrname, [])
InsertAssattrAppended(values, node) ==
  IF node \in Range(values) THEN values ELSE Append(values, node)

InsertAssattrOthersFirst(values, node) ==
  IF node \in Range(values) THEN values
  ELSE IF node.frame # "__init__" /\ values # <<>> /\ values[1].frame = "__init__"
    THEN <<node>> \o values
  ELSE Append(values, node)

InsertAssattrDuplicating(values, node) ==
  IF node.frame = "__init__" /\ values # <<>> /\ values[1].frame # "__init__"
    THEN <<node>> \o values
  ELSE Append(values, node)

InsertAssattr(values, node) ==
  IF node \in Range(values) THEN values
  ELSE IF node.frame = "__init__" /\ values # <<>> /\ values[1].frame # "__init__"
    THEN <<node>> \o values
  ELSE Append(values, node)

AssattrInto(iattrs, attrname, node) ==
  LET values == IF attrname \in DOMAIN iattrs THEN iattrs[attrname] ELSE <<>>
  IN IF attrname \in DOMAIN iattrs
     THEN [iattrs EXCEPT ![attrname] = InsertAssattr(values, node)]
     ELSE iattrs @@ (attrname :> InsertAssattr(values, node))

\* the loop over the candidates of one record
RECURSIVE AssattrLoopDefaulting(_, _, _, _)
AssattrLoopDefaulting(tabs, mods, rec, cands) ==
  IF cands = <<>> THEN tabs
  ELSE LET target == TargetTable(mods, Head(cands), rec.attrname)
           owner == IF target = NoTable THEN <<rec.node.b, "locals">> ELSE target
       IN AssattrLoopDefaulting(
            [tabs EXCEPT ![owner] = AssattrInto(@, rec.attrname, rec.node)],
            mods, rec, Tail(cands))

RECURSIVE AssattrLoop(_, _, _, _)
AssattrLoop(tabs, mods, rec, cands) ==
  IF cands = <<>> THEN tabs
  ELSE LET target == TargetTable(mods, Head(cands), rec.attrname)
       IN IF target = NoTable THEN AssattrLoop(tabs, mods, rec, Tail(cands))
          ELSE AssattrLoop([tabs EXCEPT ![target] = AssattrInto(@, rec.attrname, rec.node)],
                           mods, rec, Tail(cands))

\* delayed_assattr(node): an InferenceError raised by the oracle ends the loop,
\* what was inserted before stays
DelayedAssattrRolledBack(tabs, mods, rec, answer) ==
  IF answer.raises THEN tabs ELSE AssattrLoop(tabs, mods, rec, answer.cands)

delayed_assattr(tabs, mods, rec, answer) == AssattrLoop(tabs, mods, rec, answer.cands)

\* the except clause around the loop: the exceptions it swallows
ExceptNothing(exc) == FALSE

ExceptInferenceError(exc) == exc = "InferenceError"

(***************************************************************************)
(* What a build gives back to its caller.                                  *)
(***************************************************************************)
\* the node a build returns: the Module node b, or the root the transforms put
\* in its place
ModuleRef(b) == [tag |-> "Module", b |-> b]

ReplacedRef(b) == [tag |-> "Replaced", b |-> b]

NoRef == [tag |-> "None", b |-> 0]

\* the node inspect_build makes of a live module, in place or replaced by the
\* transforms
IntrospectedRef == [tag |-> "Introspected", b |-> 0]

ReplacedIntrospectedRef == [tag |-> "Replaced introspected", b |-> 0]

\* the call of module_build a build belongs to: the __file__ of the live module
\* and the builder's _apply_transforms; NoCaller for the other entry points
Caller(file, apply_transforms) ==
  [op |-> "module_build", file |-> file, apply_transforms |-> apply_transforms]

NoCaller == [op |-> None, file |-> None, apply_transforms |-> FALSE]

\* transforms counts the calls of visit_transforms, inspected tells whether
\* inspect_build was called
NoOutcome ==
  [kind |-> "none", node |-> NoRef, b |-> 0, visited |-> FALSE,
   from_log |-> <<>>, attr_log |-> <<>>,
   caller |-> NoCaller, transforms |-> 0, inspected |-> FALSE,
   exc |-> None, message |-> None, modname |-> None, path |-> None,
   filename |-> None, error |-> None, source |-> None]

\* the text of a file and the text a caller passes to string_build
FileData == ("M.py" :> "data of M.py") @@ ("N.py" :> "data of N.py")

StringData == "data"

\* the same text, indented as a whole, as a caller may give it to parse
IndentedData == "    data"

\* what open_source_file(path) may do
OpenResults == {"ok", "IOError", "SyntaxError", "LookupError", "UnicodeError"}

\* what _parse(data + '\n') may do
ParseResults == {"ok", "TypeError", "ValueError", "SyntaxError"}

\* file_build: the error an open_source_file failure is turned into
OpenFailureRaw(opened, modname, path) ==
  [NoOutcome EXCEPT !.kind = "error", !.exc = opened, !.path = path]

OpenFailure(opened, modname, path) ==
  IF opened = "IOError"
    THEN [NoOutcome EXCEPT !.kind = "error", !.exc = "AstroidBuildingError",
            !.message = "Unable to load file", !.modname = modname, !.path = path,
            !.error = opened]
  ELSE IF opened \in {"SyntaxError", "LookupError"}
    THEN [NoOutcome EXCEPT !.kind = "error", !.exc = "AstroidSyntaxError",
            !.message = "encoding specification error or unknown encoding",
            !.modname = modname, !.path = path, !.error = opened]
  ELSE [NoOutcome EXCEPT !.kind = "error", !.exc = "AstroidBuildingError",
            !.message = "Wrong or no encoding specified", !.filename = path]

\* data + '\n', the text _parse is given
WithNewline ==
  (StringData :> "data\n") @@ (IndentedData :> "    data\n")
    @@ (FileData["M.py"] :> "data of M.py\n") @@ (FileData["N.py"] :> "data of N.py\n")

\* _data_build: the error a parse failure is turned into
ParseFailureOfParsedText(parsed, data, modname, path) ==
  [NoOutcome EXCEPT !.kind = "error", !.exc = "AstroidSyntaxError",
     !.message = "Parsing Python code failed", !.source = WithNewline[data],
     !.modname = modname, !.path = path, !.error = parsed]

ParseFailure(parsed, data, modname, path) ==
  [NoOutcome EXCEPT !.kind = "error", !.exc = "AstroidSyntaxError",
     !.message = "Parsing Python code failed", !.source = data,
     !.modname = modname, !.path = path, !.error = parsed]

\* the encoding open_source_file detects, and data.encode('utf-8')
FileEncoding == ("M.py" :> "utf-8") @@ ("N.py" :> "iso-8859-1")

Utf8Bytes == (StringData :> "bytes of data")

NoModule == VisitModule(0, [imports |-> <<>>, attrs |-> <<>>], "M", None)

\* _data_build(data, modname, path) when _parse gives parsed and the rebuilder
\* would turn the syntax tree into t: what it raises or returns, and the manager's
\* cache after the call
DataBuildCachesFirst(cache, b, parsed, t, data, modname, path) ==
  IF parsed # "ok"
    THEN [raised |-> TRUE, error |-> ParseFailure(parsed, data, modname, path),
          module |-> NoModule, astroid_cache |-> [cache EXCEPT ![modname] = b]]
  ELSE [raised |-> FALSE, error |-> NoOutcome,
        module |-> VisitModule(b, t, modname, path),
        astroid_cache |-> [cache EXCEPT ![modname] = b]]

_data_build(cache, b, parsed, t, data, modname, path) ==
  IF parsed # "ok"
    THEN [raised |-> TRUE, error |-> ParseFailure(parsed, data, modname, path),
          module |-> NoModule, astroid_cache |-> cache]
  ELSE [raised |-> FALSE, error |-> NoOutcome,
        module |-> VisitModule(b, t, modname, path), astroid_cache |-> cache]

\* the modules once _data_build has returned a new one: the two lists it holds
\* are those of the TreeRebuilder made for this build, and no other module's
AttachListsOfBuilder(mods, module) ==
  Append([k \in DOMAIN mods |->
            [mods[k] EXCEPT !._import_from_nodes = module._import_from_nodes,
                            !._delayed_assattr = module._delayed_assattr]],
         module)

AttachLists(mods, module) == Append(mods, module)

(***************************************************************************)
(* The call stack.                                                         *)
(***************************************************************************)
\* one activation of _post_build(module, encoding) on module b
Frame(b, encoding, apply_transforms) ==
  [b |-> b, pc |-> "post_build", encoding |-> encoding, apply |-> apply_transforms,
   i |-> 0, j |-> 0, imported |-> NoRef, from_log |-> <<>>, attr_log |-> <<>>,
   caller |-> NoCaller]

Top == stack[Len(stack)]

Running(pc) == stack # <<>> /\ Top.pc = pc

SetTop(f) == [stack EXCEPT ![Len(stack)] = f]

NewId == Len(modules) + 1

\* no answer of the oracle: the step was not an attribute assignment
NoAnswer == [cands |-> <<>>, raises |-> FALSE]

\* the arguments of a call of an entry point; code is the text given to parse
Args(code, data, modname, path) ==
  [code |-> code, data |-> data, modname |-> modname, path |-> path]

NoArgs == Args(None, None, None, None)

Event(op, b, n, note) ==
  [op |-> op, b |-> b, n |-> n, note |-> note, answer |-> NoAnswer, args |-> NoArgs]

\* the step of an entry point called with args
Called(op, b, note, args) == [Event(op, b, 0, note) EXCEPT !.args = args]

\* the modules inference can reach from module b: itself and the registered ones
Reachable(b) == {b} \cup ({astroid_cache[x] : x \in Names} \ {0})

\* the deferred records of the modules built so far
RECURSIVE Records(_)
Records(mods) ==
  IF mods = <<>> THEN 0
  ELSE Len(Head(mods)._import_from_nodes) + Len(Head(mods)._delayed_assattr)
       + Records(Tail(mods))

\* the trees a further module of this session may have
TreesLeft ==
  {t \in Trees(MostRecords) :
     Records(modules) + Len(t.imports) + Len(t.attrs) \in RecordCounts}

Init ==
  /\ astroid_cache = [x \in Names |-> 0]
  /\ modules = <<>>
  /\ tables = <<>>
  /\ stack = <<>>
  /\ outcome = NoOutcome
  /\ ev = Event("init", 0, 0, "")

(***************************************************************************)
(* The entry points.                                                       *)
(***************************************************************************)
\* the state after a successful _data_build: the new Module node, its tables,
\* and an activation of _post_build on it
Enter(below, built, encoding, apply_transforms, file_bytes, caller) ==
  /\ modules' = AttachLists(modules, [built.module EXCEPT !.file_bytes = file_bytes])
  /\ tables' = tables @@ InitialTables(NewId, built.module.name)
  /\ stack' = Append(below, [Frame(NewId, encoding, apply_transforms)
                               EXCEPT !.caller = caller])
  /\ astroid_cache' = built.astroid_cache
  /\ outcome' = NoOutcome

\* file_build(path, modname) on a builder made with apply_transforms, called
\* by the user or by module_build
FileBuild(path, modname, apply_transforms, caller) ==
  /\ stack = <<>>
  /\ Len(modules) < MaxBuilds
  /\ \/ \E opened \in OpenResults \ {"ok"} :
          /\ outcome' = OpenFailure(opened, modname, path)
          /\ ev' = Called("file_build", 0, opened, Args(None, None, modname, path))
          /\ UNCHANGED <<astroid_cache, modules, tables, stack>>
     \/ \E name \in IF modname = None
                    THEN {DerivedModname(path, import_error) : import_error \in BOOLEAN}
                    ELSE {modname} :
          \/ \E parsed \in ParseResults \ {"ok"} :
               LET built == _data_build(astroid_cache, NewId, parsed,
                                        [imports |-> <<>>, attrs |-> <<>>],
                                        FileData[path], name, path)
               IN /\ built.raised
                  /\ outcome' = built.error
                  /\ astroid_cache' = built.astroid_cache
                  /\ ev' = Called("file_build", 0, parsed,
                                  Args(None, FileData[path], modname, path))
                  /\ UNCHANGED <<modules, tables, stack>>
          \/ \E t \in TreesLeft :
               LET built == _data_build(astroid_cache, NewId, "ok", t,
                                        FileData[path], name, path)
               IN /\ ~built.raised
                  /\ Enter(<<>>, built, FileEncoding[path], apply_transforms, None,
                           caller)
                  /\ ev' = Called("file_build", NewId, "built",
                                  Args(None, FileData[path], modname, path))

file_build(path, modname, apply_transforms) ==
  /\ path \in DOMAIN FileData
  /\ FileBuild(path, modname, apply_transforms, NoCaller)

\* string_build(data, modname, path) on a builder made with apply_transforms,
\* called by the user or by parse(code, ...)
StringBuild(code, data, modname, path, apply_transforms) ==
  /\ stack = <<>>
  /\ Len(modules) < MaxBuilds
  /\ \/ \E parsed \in ParseResults \ {"ok"} :
          LET built == _data_build(astroid_cache, NewId, parsed,
                                   [imports |-> <<>>, attrs |-> <<>>],
                                   data, modname, path)
          IN /\ built.raised
             /\ outcome' = built.error
             /\ astroid_cache' = built.astroid_cache
             /\ ev' = Called("string_build", 0, parsed, Args(code, data, modname, path))
             /\ UNCHANGED <<modules, tables, stack>>
     \/ \E t \in TreesLeft :
          LET built == _data_build(astroid_cache, NewId, "ok", t,
                                   data, modname, path)
          IN /\ ~built.raised
             /\ Enter(<<>>, built, "utf-8", apply_transforms, Utf8Bytes[data],
                      NoCaller)
             /\ ev' = Called("string_build", NewId, "built",
                             Args(code, data, modname, path))

string_build(data, modname, path, apply_transforms) ==
  /\ data \in DOMAIN Utf8Bytes
  /\ StringBuild(None, data, modname, path, apply_transforms)

\* textwrap.dedent(code), on the texts the model passes
dedent == (StringData :> StringData) @@ (IndentedData :> StringData)

\* parse(code, module_name, path, apply_transforms)
parse(code, module_name, path, apply_transforms) ==
  /\ code \in DOMAIN dedent
  /\ StringBuild(code, dedent[code], module_name, path, apply_transforms)

(***************************************************************************)
(* _post_build, one step per statement that can be observed from outside.  *)
(***************************************************************************)
\* module.file_encoding = encoding; self._manager.cache_module(module)
PostBuildCacheSkipped(cache, module, b) == cache

PostBuildCache(cache, module, b) == cache_module(cache, module.name, b)

post_build_cache ==
  /\ Running("post_build")
  /\ modules' = [modules EXCEPT ![Top.b].file_encoding = Top.encoding]
  /\ astroid_cache' = PostBuildCache(astroid_cache, modules[Top.b], Top.b)
  /\ stack' = SetTop([Top EXCEPT !.pc = "resolve"])
  /\ ev' = Event("cache_module", Top.b, 0, "")
  /\ UNCHANGED <<tables, outcome>>

\* the record a loop hands over next, after k records
NextRecordAgain(k) == IF k = 0 THEN 1 ELSE k

NextRecord(k) == k + 1

\* the scope a from-import binds its names in: node.parent.scope()
ScopeOfImported(b, imported) == <<imported, "locals">>

ScopeOf(b, imported) == <<b, "locals">>

\* for name in imported.public_names(): set_local(name, node); sort_locals(...)
BindWildcard(tabs, b, imported, node) ==
  LET scope == ScopeOf(b, imported)
  IN [tabs EXCEPT ![scope] =
        BindNames(@, public_names(tabs[<<imported, "locals">>]), node)]

\* what the manager's attempt to build an unknown module may end in before
\* any tree is built: no source file found, or an open_source_file failure
ImportFailures == (OpenResults \ {"ok"}) \cup {"ImportError"}

\* module.future_imports after the __future__ names of a record are added
FutureImports(module, rec) ==
  IF rec.modname = "__future__"
  THEN module.future_imports \cup {rec.names[k][1] : k \in 1..Len(rec.names)}
  ELSE module.future_imports

\* one pass of the loop over module._import_from_nodes: the __future__ names,
\* then add_from_names_to_locals(from_node)
add_from_names_to_locals ==
  /\ Running("resolve")
  /\ Top.i < Len(modules[Top.b]._import_from_nodes)
  /\ LET f == Top
         n == NextRecord(f.i)
         rec == modules[f.b]._import_from_nodes[n]
         handed == [f EXCEPT !.from_log = Append(@, n)]
         future == [modules EXCEPT ![f.b].future_imports = FutureImports(modules[f.b], rec)]
         path == FileOfModule[rec.modname]
     IN \/ /\ rec.names # << <<"*", None>> >>
           /\ tables' = [tables EXCEPT ![ScopeOf(f.b, f.b)] =
                           BindPairs(@, rec.names, rec.node)]
           /\ modules' = future
           /\ stack' = SetTop([handed EXCEPT !.i = n])
           /\ ev' = Event("add_from_names_to_locals", f.b, n, "bound")
           /\ UNCHANGED <<astroid_cache, outcome>>
        \/ /\ rec.names = << <<"*", None>> >>
           /\ astroid_cache[rec.modname] # 0
           /\ tables' = BindWildcard(tables, f.b, astroid_cache[rec.modname], rec.node)
           /\ modules' = future
           /\ stack' = SetTop([handed EXCEPT !.i = n])
           /\ ev' = Event("add_from_names_to_locals", f.b, n, "found")
           /\ UNCHANGED <<astroid_cache, outcome>>
        \/ /\ rec.names = << <<"*", None>> >>
           /\ astroid_cache[rec.modname] = 0
           /\ \E failure \in ImportFailures :
                /\ modules' = future
                /\ stack' = SetTop([handed EXCEPT !.i = n])
                /\ ev' = Event("add_from_names_to_locals", f.b, n, "unresolved")
                /\ UNCHANGED <<astroid_cache, tables, outcome>>
        \/ /\ rec.names = << <<"*", None>> >>
           /\ astroid_cache[rec.modname] = 0
           /\ \E parsed \in ParseResults \ {"ok"} :
                LET built == _data_build(astroid_cache, NewId, parsed,
                                         [imports |-> <<>>, attrs |-> <<>>],
                                         FileData[path], rec.modname, path)
                IN /\ built.raised
                   /\ modules' = future
                   /\ stack' = SetTop([handed EXCEPT !.i = n])
                   /\ astroid_cache' = built.astroid_cache
                   /\ ev' = Event("add_from_names_to_locals", f.b, n, "unresolved")
                   /\ UNCHANGED <<tables, outcome>>
        \/ /\ rec.names = << <<"*", None>> >>
           /\ astroid_cache[rec.modname] = 0
           /\ Len(modules) < MaxBuilds
           /\ \E t \in TreesLeft :
                LET built == _data_build(astroid_cache, NewId, "ok", t,
                                         FileData[path], rec.modname, path)
                IN /\ ~built.raised
                   /\ modules' = AttachLists(future, built.module)
                   /\ tables' = tables @@ InitialTables(NewId, built.module.name)
                   /\ stack' = Append(SetTop([handed EXCEPT !.pc = "import_wait"]),
                                      Frame(NewId, FileEncoding[path], TRUE))
                   /\ astroid_cache' = built.astroid_cache
                   /\ outcome' = NoOutcome
                   /\ ev' = Event("add_from_names_to_locals", f.b, n, "building")

\* add_from_names_to_locals goes on once do_import_module has returned the
\* module the manager built
add_from_names_imported ==
  /\ Running("imported")
  /\ LET f == Top
         n == NextRecord(f.i)
         rec == modules[f.b]._import_from_nodes[n]
     IN /\ tables' = BindWildcard(tables, f.b, f.imported.b, rec.node)
        /\ stack' = SetTop([f EXCEPT !.pc = "resolve", !.i = n, !.imported = NoRef])
        /\ outcome' = NoOutcome
        /\ ev' = Event("add_from_names_to_locals", f.b, n, "imported")
        /\ UNCHANGED <<astroid_cache, modules>>

\* the loop over module._import_from_nodes is over when the loop over
\* module._delayed_assattr begins
FromLoopSkipped(f, module) == TRUE

FromLoopDone(f, module) == f.i = Len(module._import_from_nodes)

\* one pass of the loop over module._delayed_assattr, the oracle yielding one
\* of the given numbers of candidates
delayed_assattr_step(lengths) ==
  /\ Running("resolve")
  /\ FromLoopDone(Top, modules[Top.b])
  /\ Top.j < Len(modules[Top.b]._delayed_assattr)
  /\ LET f == Top
         n == NextRecord(f.j)
         rec == modules[f.b]._delayed_assattr[n]
     IN \E k \in lengths : \E answer \in Answers(Reachable(f.b), k) :
          /\ tables' = delayed_assattr(tables, modules, rec, answer)
          /\ IF answer.raises /\ ~ExceptInferenceError("InferenceError")
             THEN \* the exception leaves every activation of the call chain
                  /\ stack' = <<>>
                  /\ outcome' = [NoOutcome EXCEPT !.kind = "error",
                                                  !.exc = "InferenceError"]
                  /\ ev' = [Event("delayed_assattr", f.b, n, "raised")
                             EXCEPT !.answer = answer]
             ELSE /\ stack' = SetTop([f EXCEPT !.j = n, !.attr_log = Append(@, n)])
                  /\ outcome' = outcome
                  /\ ev' = [Event("delayed_assattr", f.b, n,
                                  IF ~answer.raises THEN "inferred"
                                  ELSE IF k = 0 THEN "InferenceError"
                                  ELSE "InferenceError after candidates")
                             EXCEPT !.answer = answer]
          /\ UNCHANGED <<astroid_cache, modules>>

\* manager.visit_transforms(module): the module itself or another root
visit_transforms(b, replaced) == IF replaced THEN ReplacedRef(b) ELSE ModuleRef(b)

\* the live modules module_build is given, by their __file__: a module compiled
\* from M.py, one compiled from a source that is gone, an extension module and
\* a built-in module
LiveFiles == {"M.pyc", "K.pyc", "N.so", None}

\* os.path.splitext(modutils._path_from_filename(path))
Splitext ==
  ("M.pyc" :> <<"M", ".pyc">>) @@ ("K.pyc" :> <<"K", ".pyc">>)
    @@ ("N.so" :> <<"N", ".so">>)

\* path_ + '.py'
WithPy == ("M" :> "M.py") @@ ("K" :> "K.py") @@ ("N" :> "N.py")

\* os.path.exists(path)
Exists(path) == path \in DOMAIN FileData

\* module_build: the test that sends it to file_build
HasSource(path) ==
  /\ path # None
  /\ Splitext[path][2] \in {".py", ".pyc", ".pyo"}
  /\ Exists(WithPy[Splitext[path][1]])

\* module_build from "if node is None" on, node being what file_build returned
\* and NoRef when it was not called: the node module_build returns, whether it
\* called inspect_build and how often it called visit_transforms
ModuleBuildRestTransforming(node, apply_transforms, replaced) ==
  IF node = NoRef
  THEN [node |-> IF apply_transforms /\ replaced THEN ReplacedIntrospectedRef
                 ELSE IntrospectedRef,
        inspected |-> TRUE, transforms |-> IF apply_transforms THEN 1 ELSE 0]
  ELSE [node |-> node, inspected |-> FALSE,
        transforms |-> IF apply_transforms THEN 1 ELSE 0]

ModuleBuildRest(node, apply_transforms, replaced) ==
  IF node = NoRef
  THEN [node |-> IF apply_transforms /\ replaced THEN ReplacedIntrospectedRef
                 ELSE IntrospectedRef,
        inspected |-> TRUE, transforms |-> IF apply_transforms THEN 1 ELSE 0]
  ELSE [node |-> node, inspected |-> FALSE, transforms |-> 0]

\* module_build(module, modname) on a builder made with apply_transforms, path
\* being module.__file__
module_build(path, modname, apply_transforms) ==
  /\ stack = <<>>
  /\ \/ /\ HasSource(path)
        /\ FileBuild(WithPy[Splitext[path][1]], modname, apply_transforms,
                     Caller(path, apply_transforms))
     \/ /\ ~HasSource(path)
        /\ \E replaced \in BOOLEAN :
             LET rest == ModuleBuildRest(NoRef, apply_transforms, replaced)
             IN outcome' = [NoOutcome EXCEPT
                              !.kind = "module", !.node = rest.node,
                              !.caller = Caller(path, apply_transforms),
                              !.transforms = rest.transforms,
                              !.inspected = rest.inspected]
        /\ ev' = Called("module_build", 0, "inspected",
                        Args(None, None, modname, path))
        /\ UNCHANGED <<astroid_cache, modules, tables, stack>>

\* both loops of _post_build are over
LoopsDoneEarly(f, module) == f.i = Len(module._import_from_nodes)

LoopsDone(f, module) ==
  /\ f.i = Len(module._import_from_nodes)
  /\ f.j = Len(module._delayed_assattr)

\* the modules when _post_build returns: it has iterated the two lists of
\* module b and assigns to neither
ListsCleared(mods, b) ==
  [mods EXCEPT ![b]._import_from_nodes = <<>>, ![b]._delayed_assattr = <<>>]

ListsLeft(mods, b) == mods

\* what _post_build returns
PostBuildResult(apply_transforms, b, replaced) ==
  IF apply_transforms THEN visit_transforms(b, replaced) ELSE ModuleRef(b)

\* the end of _post_build: the transforms, then the return to the caller, which
\* is the user or a do_import_module call of the activation below
post_build_return ==
  /\ Running("resolve")
  /\ LoopsDone(Top, modules[Top.b])
  /\ \E replaced \in BOOLEAN :
       LET f == Top
           node == PostBuildResult(f.apply, f.b, replaced)
           transformed == IF f.apply THEN visit_transforms(f.b, replaced) ELSE NoRef
           rest == IF f.caller.op = "module_build"
                   THEN ModuleBuildRest(node, f.caller.apply_transforms, replaced)
                   ELSE [node |-> node, inspected |-> FALSE, transforms |-> 0]
       IN /\ outcome' = [NoOutcome EXCEPT !.kind = "module", !.node = rest.node,
                           !.b = f.b,
                           !.visited = f.apply, !.from_log = f.from_log,
                           !.attr_log = f.attr_log, !.caller = f.caller,
                           !.transforms = (IF f.apply THEN 1 ELSE 0) + rest.transforms,
                           !.inspected = rest.inspected]
          /\ stack' = IF Len(stack) = 1 THEN <<>>
                      ELSE [SubSeq(stack, 1, Len(stack) - 1) EXCEPT
                              ![Len(stack) - 1].pc = "imported",
                              ![Len(stack) - 1].imported = rest.node]
          /\ ev' = Event("visit_transforms", f.b, 0, transformed.tag)
          /\ modules' = ListsLeft(modules, f.b)
          /\ UNCHANGED <<astroid_cache, tables>>

\* A session of the manager: the user builds M from its file and N from a
\* string, directly or with parse, any number of times; the manager builds
\* what wildcard imports need.
Next ==
  \/ \E apply_transforms \in BOOLEAN : file_build("M.py", None, apply_transforms)
  \/ file_build("M.py", "M", TRUE)
  \/ \E apply_transforms \in BOOLEAN :
       string_build(StringData, "N", None, apply_transforms)
  \/ parse(IndentedData, "N", None, TRUE)
  \/ post_build_cache
  \/ add_from_names_to_locals
  \/ add_from_names_imported
  \/ delayed_assattr_step(FewCands)
  \/ post_build_return

Spec == Init /\ [][Next]_vars

(***************************************************************************)
(* The resolution of the attribute assignments of one module, followed     *)
(* from the moment _post_build has registered it: module M, built from     *)
(* its file by a builder that applies the transforms, with up to MaxAttrs  *)
(* attribute assignments and no from-import, the oracle yielding at most   *)
(* one candidate for each.                                                 *)
(***************************************************************************)
InitAttr ==
  \E attrs \in SeqUpTo(AssignAttrKinds, MaxAttrs) :
    LET built == _data_build([x \in Names |-> 0], 1, "ok",
                             [imports |-> <<>>, attrs |-> attrs],
                             FileData["M.py"], "M", "M.py")
        module == [built.module EXCEPT !.file_encoding = FileEncoding["M.py"]]
    IN /\ modules = <<module>>
       /\ astroid_cache = PostBuildCache(built.astroid_cache, module, 1)
       /\ tables = InitialTables(1, module.name)
       /\ stack = <<[Frame(1, FileEncoding["M.py"], TRUE)
                      EXCEPT !.pc = "resolve"]>>
       /\ outcome = NoOutcome
       /\ ev = Event("cache_module", 1, 0, "")

NextAttr ==
  \/ delayed_assattr_step(FewCands)
  \/ post_build_return

SpecAttr == InitAttr /\ [][NextAttr]_vars

(***************************************************************************)
(* The same resolution with an oracle that yields up to two candidates     *)
(* for each of up to MaxAssattr attribute assignments, for a class "a"     *)
(* without __slots__ and one whose __slots__ leaves the attribute out.     *)
(***************************************************************************)
\* what slots() may give for the class: no __slots__, an empty __slots__, one
\* that leaves the attribute out, one that holds it, or NotImplementedError
SlotsKinds ==
  {Slots("None", <<>>), Slots("list", <<>>), Slots("list", <<"b">>),
   Slots("list", <<"a", "b">>), Slots("NotImplementedError", <<>>)}

FewSlotsKinds == {Slots("None", <<>>), Slots("list", <<"b">>)}

\* module M registered, with the given attribute assignments and slots() of its
\* class, at the start of the loops of _post_build
Resolving(attrs, slots) ==
  LET built == _data_build([x \in Names |-> 0], 1, "ok",
                           [imports |-> <<>>, attrs |-> attrs],
                           FileData["M.py"], "M", "M.py")
      module == [built.module EXCEPT !.file_encoding = FileEncoding["M.py"],
                                     !.slots = slots]
  IN /\ modules = <<module>>
     /\ astroid_cache = PostBuildCache(built.astroid_cache, module, 1)
     /\ tables = InitialTables(1, module.name)
     /\ stack = <<[Frame(1, FileEncoding["M.py"], TRUE)
                    EXCEPT !.pc = "resolve"]>>
     /\ outcome = NoOutcome
     /\ ev = Event("cache_module", 1, 0, "")

(***************************************************************************)
(* The same resolution for a class "a" with each kind of slots             *)
(* declaration, the oracle yielding at most one candidate.                 *)
(***************************************************************************)
InitSlots ==
  \E attrs \in SeqUpTo(AssignAttrKinds, MaxAssattr), slots \in SlotsKinds :
    Resolving(attrs, slots)

SpecSlots == InitSlots /\ [][NextAttr]_vars

InitCands ==
  \E attrs \in SeqUpTo(AssignAttrKinds, MaxAssattr), slots \in FewSlotsKinds :
    LET built == _data_build([x \in Names |-> 0], 1, "ok",
                             [imports |-> <<>>, attrs |-> attrs],
                             FileData["M.py"], "M", "M.py")
        module == [built.module EXCEPT !.file_encoding = FileEncoding["M.py"],
                                       !.slots = slots]
    IN /\ modules = <<module>>
       /\ astroid_cache = PostBuildCache(built.astroid_cache, module, 1)
       /\ tables = InitialTables(1, module.name)
       /\ stack = <<[Frame(1, FileEncoding["M.py"], TRUE)
                      EXCEPT !.pc = "resolve"]>>
       /\ outcome = NoOutcome
       /\ ev = Event("cache_module", 1, 0, "")

NextCands ==
  \/ delayed_assattr_step(ManyCands)
  \/ post_build_return

SpecCands == InitCands /\ [][NextCands]_vars

\* Every build is one synchronous call chain: the running activation always
\* takes its next step.
(***************************************************************************)
(* The builds of live modules: the user gives module_build a live module,  *)
(* with or without a source file behind it.                                *)
(***************************************************************************)
NextModule ==
  \/ \E path \in LiveFiles, apply_transforms \in BOOLEAN :
       module_build(path, None, apply_transforms)
  \/ post_build_cache
  \/ add_from_names_to_locals
  \/ add_from_names_imported
  \/ delayed_assattr_step(FewCands)
  \/ post_build_return

SpecModule == Init /\ [][NextModule]_vars

SpecLive ==
  /\ Spec
  /\ WF_vars(post_build_cache)
  /\ WF_vars(add_from_names_to_locals)
  /\ WF_vars(add_from_names_imported)
  /\ WF_vars(delayed_assattr_step(FewCands))
  /\ WF_vars(post_build_return)

(***************************************************************************)
(* Vocabulary of the properties.                                           *)
(***************************************************************************)
Iota(n) == [k \in 1..n |-> k]

Built == 1..Len(modules)

OnStack(b) == \E k \in 1..Len(stack) : stack[k].b = b

\* module b is what the registry holds under its name
Registered(b) == astroid_cache[modules[b].name] = b

\* the build of module b is over and the registry holds it
Completed(b) == b \in Built /\ ~OnStack(b) /\ Registered(b)

\* the last step handed a deferred record to its resolution routine
RecordStep(e) == e.op \in {"add_from_names_to_locals", "delayed_assattr"}

SortedByLine(my_list) ==
  \A k \in 1..(Len(my_list) - 1) : my_list[k].fromlineno <= my_list[k + 1].fromlineno

TableKinds == {"locals", "a.locals", "a.instance_attrs", "meth.instance_attrs"}

LocalsKinds == {"locals", "a.locals"}

\* the binding list of name in a table, empty when the table has no such entry
Bindings(tabs, key, name) ==
  IF name \in DOMAIN tabs[key] THEN tabs[key][name] ELSE <<>>

(***************************************************************************)
(* C1: in every build the module is in the registry under its name before  *)
(* the first deferred record of that build is processed, and stays there   *)
(* while the build resolves its records, also while a build that one of    *)
(* its wildcard imports triggered is running: every activation that has    *)
(* passed the first statements of _post_build finds its module under its   *)
(* name.                                                                   *)
(***************************************************************************)
C1_RegisteredBeforeResolve ==
  \A k \in 1..Len(stack) :
    /\ stack[k].pc # "post_build" => Registered(stack[k].b)
    /\ stack[k].pc = "post_build" =>
         stack[k].i = 0 /\ stack[k].j = 0 /\ stack[k].from_log = <<>>
         /\ stack[k].attr_log = <<>>

\* a nested build looked up the name of the build that triggered it, and found it
C1_Witness ==
  /\ Len(stack) = 2
  /\ ev.op = "add_from_names_to_locals" /\ ev.note = "found" /\ ev.b = stack[2].b
  /\ modules[ev.b]._import_from_nodes[ev.n].modname = modules[stack[1].b].name
  /\ astroid_cache[modules[stack[1].b].name] = stack[1].b
  /\ stack[1].pc = "import_wait"

(***************************************************************************)
(* C2: cycle safety.  A build whose wildcard import triggers a build that  *)
(* imports from the first one again ends: no name is being built twice in  *)
(* one call chain, so the chain is no deeper than there are names; every   *)
(* module built is in the registry once its activation has registered it,  *)
(* so all of them are when the outer build returns; and every build that   *)
(* has started returns.                                                    *)
(***************************************************************************)
C2_NoRebuild ==
  /\ \A k, l \in 1..Len(stack) :
       k # l => modules[stack[k].b].name # modules[stack[l].b].name
  /\ Len(stack) <= Cardinality(Names)
  /\ stack = <<>> /\ outcome.kind = "module" =>
       \A b \in Built : b >= outcome.b => astroid_cache[modules[b].name] # 0

C2_CycleSafety == []C2_NoRebuild /\ [](stack # <<>> => <>(stack = <<>>))

\* M imported everything from N, whose build imported everything from M and
\* found it; both builds are over and both names are registered
C2_Witness ==
  /\ stack = <<>> /\ outcome.kind = "module" /\ Len(modules) = 2
  /\ outcome.b = 1
  /\ modules[1]._import_from_nodes # <<>>
  /\ modules[1]._import_from_nodes[1].names = << <<"*", None>> >>
  /\ modules[1]._import_from_nodes[1].modname = modules[2].name
  /\ modules[2]._import_from_nodes # <<>>
  /\ modules[2]._import_from_nodes[1].names = << <<"*", None>> >>
  /\ modules[2]._import_from_nodes[1].modname = modules[1].name
  /\ modules[1].name # modules[2].name
  /\ Registered(1) /\ Registered(2)

(***************************************************************************)
(* C3: when a build returns, the transforms were run only if the builder   *)
(* applies them, and then after every record of both deferred lists was    *)
(* handed over; the build returns the node the transforms returned, which  *)
(* may be another root than the Module node; without transforms it returns *)
(* the Module node itself.                                                 *)
(***************************************************************************)
C3_TransformsLast ==
  ev.op = "visit_transforms" =>
    /\ outcome.kind = "module" /\ outcome.b = ev.b
    /\ outcome.from_log = Iota(Len(modules[ev.b]._import_from_nodes))
    /\ outcome.attr_log = Iota(Len(modules[ev.b]._delayed_assattr))
    /\ outcome.visited <=> ev.note # "None"
    /\ ev.note = "Replaced" => outcome.node = ReplacedRef(ev.b)
    /\ ev.note \in {"Module", "None"} => outcome.node = ModuleRef(ev.b)

\* a build with records in both lists returned the root the transforms put in
\* the module's place
C3_Witness ==
  /\ ev.op = "visit_transforms" /\ ev.note = "Replaced"
  /\ outcome.node = ReplacedRef(ev.b) /\ outcome.node # ModuleRef(ev.b)
  /\ outcome.from_log # <<>> /\ outcome.attr_log # <<>>

(***************************************************************************)
(* C4: a build that fails while it opens or parses its source leaves the   *)
(* registry as it was: no name is added and no entry is replaced; this     *)
(* holds for the builds a caller starts and for those a wildcard import    *)
(* makes the manager start.  An error reaches a caller only from such a    *)
(* failure, before any Module node exists; an activation of _post_build    *)
(* ends only by returning a node to its caller.                            *)
(***************************************************************************)
C4_FailureStep ==
  /\ ev'.op \in {"file_build", "string_build"} /\ ev'.note # "built" =>
       /\ outcome'.kind = "error"
       /\ outcome'.exc \in {"AstroidBuildingError", "AstroidSyntaxError"}
       /\ astroid_cache' = astroid_cache
       /\ modules' = modules /\ stack' = stack
  /\ ev'.note = "unresolved" => astroid_cache' = astroid_cache
  /\ outcome'.kind = "error" => stack = <<>> /\ stack' = <<>>
  /\ Len(stack') < Len(stack) =>
       /\ outcome'.kind = "module" /\ outcome'.b = Top.b
       /\ outcome'.node \in {ModuleRef(Top.b), ReplacedRef(Top.b)}
       /\ Registered(Top.b)

C4_FailedBuildCachesNothing == [][C4_FailureStep]_vars

\* the build of a name that is registered failed to parse, the entry is still
\* the module registered before
C4_Witness ==
  /\ ev.op = "string_build" /\ ev.note = "SyntaxError"
  /\ outcome.kind = "error" /\ outcome.modname = "N"
  /\ astroid_cache["N"] = 1 /\ Len(modules) = 1

(***************************************************************************)
(* C5 as claimed: a wildcard import whose module cannot be imported, and   *)
(* an attribute assignment whose inference raises InferenceError, change   *)
(* no table; nothing is raised to the caller of the build, every later     *)
(* record is processed and the build returns a module.                     *)
(***************************************************************************)
C5_Continues ==
  /\ RecordStep(ev') => outcome'.kind # "error" /\ stack' # <<>>
  /\ Len(stack') < Len(stack) =>
       /\ outcome'.kind = "module"
       /\ outcome'.from_log = Iota(Len(modules[Top.b]._import_from_nodes))
       /\ outcome'.attr_log = Iota(Len(modules[Top.b]._delayed_assattr))

C5_NoEffectStep ==
  /\ ev'.note \in {"unresolved", "InferenceError", "InferenceError after candidates"}
       => tables' = tables
  /\ C5_Continues

C5_Original == [][C5_NoEffectStep]_vars

(***************************************************************************)
(* C5 as amended: a wildcard import whose module cannot be imported, and   *)
(* an attribute assignment whose inference raises InferenceError before    *)
(* it yields a candidate, change no table; what was inserted for the       *)
(* candidates yielded before an InferenceError stays.  In all these cases  *)
(* nothing is raised to the caller of the build, every later record is     *)
(* processed and the build returns a module.                               *)
(***************************************************************************)
C5_AbsorbedStep ==
  /\ ev'.note \in {"unresolved", "InferenceError"} => tables' = tables
  /\ ev'.note = "InferenceError after candidates" =>
       \A key \in DOMAIN tables : \A name \in DOMAIN tables[key] :
         /\ name \in DOMAIN tables'[key]
         /\ Range(tables[key][name]) \subseteq Range(tables'[key][name])
  /\ C5_Continues

C5_PartialFailureAbsorbed == [][C5_AbsorbedStep]_vars

\* a build returned after its first record was an unresolved wildcard import
\* and the inference of its second record raised InferenceError
C5_Witness ==
  /\ stack = <<>> /\ outcome.kind = "module"
  /\ outcome.from_log = <<1>> /\ outcome.attr_log = <<1>>
  /\ modules[outcome.b]._import_from_nodes[1].names = << <<"*", None>> >>
  /\ astroid_cache[modules[outcome.b]._import_from_nodes[1].modname] = 0
  /\ tables = InitialTables(outcome.b, modules[outcome.b].name)
  /\ Len(modules) = 1

(***************************************************************************)
(* C6: in one build each record of the from-import list and each record of *)
(* the attribute-assignment list is handed to its routine at most once, in *)
(* the order of the list; also in a build that waits for a build one of    *)
(* its records triggered.                                                  *)
(***************************************************************************)
C6_OncePerRecordInOrder ==
  /\ \A k \in 1..Len(stack) :
       LET f == stack[k]
       IN /\ f.from_log = Iota(IF f.pc \in {"import_wait", "imported"}
                                 THEN f.i + 1 ELSE f.i)
          /\ f.attr_log = Iota(f.j)
          /\ Len(f.from_log) <= Len(modules[f.b]._import_from_nodes)
          /\ f.j <= Len(modules[f.b]._delayed_assattr)
  /\ outcome.kind = "module" =>
       /\ outcome.from_log = Iota(Len(modules[outcome.b]._import_from_nodes))
       /\ outcome.attr_log = Iota(Len(modules[outcome.b]._delayed_assattr))

\* a build triggered by the first record of another build has returned, after
\* it processed a record of its own; the outer build has yet to go on
C6_Witness ==
  /\ Len(stack) = 1 /\ Top.pc = "imported" /\ Top.from_log = <<1>> /\ Top.i = 0
  /\ outcome.kind = "module" /\ outcome.b = 2
  /\ Len(outcome.from_log) + Len(outcome.attr_log) = 1

(***************************************************************************)
(* C7 as claimed: after every insertion of deferred resolution into a      *)
(* per-scope symbol table, by a from-import, a wildcard import or an       *)
(* attribute assignment whose inferred owner's locals are the target, the  *)
(* binding list of the name is sorted by line (the lists the rebuilder     *)
(* leaves are sorted, so every list of every locals table is).             *)
(***************************************************************************)
C7_Original ==
  \A key \in DOMAIN tables :
    key[2] \in LocalsKinds =>
      \A name \in DOMAIN tables[key] : SortedByLine(tables[key][name])

(***************************************************************************)
(* C7 as amended: after every insertion that the resolution of a           *)
(* from-import or of a wildcard import makes into a per-scope symbol       *)
(* table, the binding list of the name is sorted by line.  (An attribute   *)
(* assignment put into an owner's locals is appended, or put first when it *)
(* is in __init__, and the list is not sorted.)                            *)
(***************************************************************************)
C7_ImportStep ==
  ev'.op = "add_from_names_to_locals" =>
    \A key \in DOMAIN tables : \A name \in DOMAIN tables'[key] :
      Bindings(tables', key, name) # Bindings(tables, key, name) =>
        /\ key[2] \in LocalsKinds
        /\ SortedByLine(tables'[key][name])
        /\ \E k \in 1..Len(tables'[key][name]) :
             tables'[key][name][k].kind = "ImportFrom"

C7_ImportsKeepSorted == [][C7_ImportStep]_vars

\* a from-import bound a name that a later line of the module defines: the
\* import node was appended and the sort has put it first
C7_Witness ==
  /\ ev.op = "add_from_names_to_locals" /\ ev.note = "bound"
  /\ Len(tables[<<ev.b, "locals">>]["a"]) = 2
  /\ tables[<<ev.b, "locals">>]["a"][1] = modules[ev.b]._import_from_nodes[ev.n].node
  /\ tables[<<ev.b, "locals">>]["a"][2].kind = "ClassDef"

(***************************************************************************)
(* C8 as claimed: once the build of a module is over and the module is in  *)
(* the registry, no step of the build of another module changes one of its *)
(* tables; an attribute assignment of a later build whose inferred owner   *)
(* belongs to it inserts nothing there.                                    *)
(***************************************************************************)
C8_ReadOnlyStep ==
  \A b \in Built : Completed(b) =>
    \A kind \in TableKinds : tables'[<<b, kind>>] = tables[<<b, kind>>]

C8_Original == [][C8_ReadOnlyStep]_vars

(***************************************************************************)
(* C8 as amended: once the build of a module is over and the module is in  *)
(* the registry, the resolution of from-imports and wildcard imports of    *)
(* other builds changes none of its tables.  The resolution of an          *)
(* attribute assignment of a later build whose inferred owner belongs to   *)
(* it does insert there: it adds the assignment node to the binding list   *)
(* of the attribute and changes nothing else.                              *)
(***************************************************************************)
C8_OwnerStep ==
  \A b \in Built : Completed(b) =>
    \A kind \in TableKinds :
      LET old == tables[<<b, kind>>]
          new == tables'[<<b, kind>>]
      IN \/ new = old
         \/ /\ ev'.op = "delayed_assattr" /\ ev'.b # b
            /\ LET rec == modules[ev'.b]._delayed_assattr[ev'.n]
               IN /\ DOMAIN new = DOMAIN old \cup {rec.attrname}
                  /\ \A name \in DOMAIN old \ {rec.attrname} : new[name] = old[name]
                  /\ new[rec.attrname] \in
                       {Append(Bindings(tables, <<b, kind>>, rec.attrname), rec.node),
                        <<rec.node>> \o Bindings(tables, <<b, kind>>, rec.attrname)}

C8_OnlyAssattrReachesOthers == [][C8_OwnerStep]_vars

\* the build of another module has put its assignment node into the
\* instance attributes of a class of a module whose build was over
C8_Witness ==
  /\ ev.op = "delayed_assattr" /\ ev.b = 2 /\ Completed(1) /\ OnStack(2)
  /\ tables[<<1, "a.instance_attrs">>] =
       ("a" :> <<modules[2]._delayed_assattr[ev.n].node>>)

(***************************************************************************)
(* Attribute assignments (SpecAttr).                                       *)
(***************************************************************************)
\* the tables an attribute assignment may be put in
AttrTables == {<<b, kind>> : b \in Built, kind \in TableKinds}

\* the attribute the assignments of the model bind
AttrNames == {kind.attrname : kind \in AssignAttrKinds}

InInit(node) == node.frame = "__init__"

(***************************************************************************)
(* C9 as claimed: after any sequence of attribute-assignment records       *)
(* resolved to the same attribute of the same table, every binding whose   *)
(* frame is the constructor precedes every binding whose frame is not      *)
(* (stated for the lists that hold nothing but such records).              *)
(***************************************************************************)
C9_Original ==
  \A key \in AttrTables : \A name \in AttrNames :
    LET values == Bindings(tables, key, name)
    IN Bindings(InitialTables(key[1], modules[key[1]].name), key, name) = <<>> =>
         \A k, l \in 1..Len(values) :
           InInit(values[k]) /\ ~InInit(values[l]) => k < l

(***************************************************************************)
(* C9 as amended: after any sequence of attribute-assignment records       *)
(* resolved to the same attribute of the same table, a binding whose frame *)
(* is the constructor is the first entry of the list whenever the list     *)
(* holds such a binding.  (A constructor binding that arrives when the     *)
(* first entry is a constructor binding already is appended, so it may     *)
(* follow bindings of other frames.)                                       *)
(***************************************************************************)
C9_ConstructorBindingFirst ==
  \A key \in AttrTables : \A name \in AttrNames :
    LET values == Bindings(tables, key, name)
    IN (\E k \in 1..Len(values) : InInit(values[k])) => InInit(values[1])

\* a constructor binding was put in front of the binding of another method
\* that had been resolved before it
C9_Witness ==
  /\ ev.op = "delayed_assattr" /\ ev.n = 2
  /\ Len(modules[1]._delayed_assattr) >= 2
  /\ tables[<<1, "a.instance_attrs">>] =
       ("a" :> <<modules[1]._delayed_assattr[2].node, modules[1]._delayed_assattr[1].node>>)
  /\ InInit(modules[1]._delayed_assattr[2].node)
  /\ ~InInit(modules[1]._delayed_assattr[1].node)

(***************************************************************************)
(* C10: when an attribute is assigned once in the constructor and once in  *)
(* one other method, and both records are resolved to the same binding     *)
(* list, empty before, the constructor's assignment is the first entry of  *)
(* the list, whichever of the two records comes first.                     *)
(***************************************************************************)
C10_ConstructorThenMethod ==
  \A b \in Built :
    LET recs == modules[b]._delayed_assattr
    IN Len(recs) = 2 /\ InInit(recs[1].node) # InInit(recs[2].node) =>
         \A key \in AttrTables : \A name \in AttrNames :
           /\ Bindings(InitialTables(key[1], modules[key[1]].name), key, name) = <<>>
           /\ Range(Bindings(tables, key, name)) = {recs[1].node, recs[2].node}
           => /\ Len(tables[key][name]) = 2
              /\ InInit(tables[key][name][1])
              /\ ~InInit(tables[key][name][2])

\* both orders have happened, each in the instance attributes of the class:
\* here the method's record came first and the constructor's second
C10_Witness ==
  /\ stack = <<>> /\ outcome.kind = "module"
  /\ Len(modules[1]._delayed_assattr) = 2
  /\ ~InInit(modules[1]._delayed_assattr[1].node)
  /\ InInit(modules[1]._delayed_assattr[2].node)
  /\ outcome.attr_log = <<1, 2>>
  /\ tables[<<1, "meth.instance_attrs">>] =
       ("a" :> <<modules[1]._delayed_assattr[2].node, modules[1]._delayed_assattr[1].node>>)

(***************************************************************************)
(* Candidates of the oracle (SpecCands).                                   *)
(***************************************************************************)
\* the last step resolved an attribute assignment: its record
LastRecord == modules[ev.b]._delayed_assattr[ev.n]

NoDuplicates(values) ==
  \A k, l \in 1..Len(values) : k # l => values[k] # values[l]

(***************************************************************************)
(* C11: the resolution of an attribute assignment is idempotent.  No       *)
(* binding list holds an assignment node twice, whatever candidates the    *)
(* oracle has yielded for the records resolved so far, the same owner      *)
(* several times for one record included; and resolving the record just    *)
(* resolved once more, with the same candidates, changes no table.         *)
(***************************************************************************)
C11_Idempotent ==
  /\ \A key \in AttrTables : \A name \in DOMAIN tables[key] :
       NoDuplicates(tables[key][name])
  /\ ev.op = "delayed_assattr" =>
       delayed_assattr(tables, modules, LastRecord, ev.answer) = tables

\* the oracle yielded the same function twice for one record, whose node is
\* in the function's instance attributes once
C11_Witness ==
  /\ ev.op = "delayed_assattr" /\ Len(ev.answer.cands) = 2
  /\ ev.answer.cands[1] = [tag |-> "FunctionDef", b |-> 1]
  /\ ev.answer.cands[2] = ev.answer.cands[1]
  /\ tables[<<1, "meth.instance_attrs">>] = ("a" :> <<LastRecord.node>>)

(***************************************************************************)
(* C12: slot rejection.  When the class declares a list of slots and the   *)
(* assigned attribute is not in it, the instance attributes of the class   *)
(* gain neither the assignment node nor an entry for the attribute, for    *)
(* every declared list, the empty one included.  (Only candidates that are *)
(* exact instances of the class target its instance attributes.)           *)
(***************************************************************************)
C12_SlotRejection ==
  \A b \in Built : \A name \in AttrNames :
    modules[b].slots.kind = "list" /\ name \notin Range(modules[b].slots.value)
      => name \notin DOMAIN tables[<<b, "a.instance_attrs">>]

(***************************************************************************)
(* C13: indeterminate drop.  When every candidate the oracle yields for an *)
(* attribute assignment is Uninferable, or an instance of another kind     *)
(* than an exact class instance (a constant, a container), the record      *)
(* changes no table: no binding is added and no entry is created; nothing  *)
(* is raised, the build goes on and returns a module.                      *)
(***************************************************************************)
UnknownTags == {"Uninferable", "Const"}

C13_UnknownStep ==
  /\ /\ ev'.op = "delayed_assattr" /\ ev'.answer.cands # <<>>
     /\ \A k \in 1..Len(ev'.answer.cands) : ev'.answer.cands[k].tag \in UnknownTags
     => /\ tables' = tables
        /\ outcome'.kind # "error"
        /\ stack' # <<>> /\ Top'.j = ev'.n
  /\ Len(stack') < Len(stack) =>
       /\ outcome'.kind = "module"
       /\ outcome'.attr_log = Iota(Len(modules[Top.b]._delayed_assattr))

C13_IndeterminateDrop == [][C13_UnknownStep]_vars

\* the oracle yielded Uninferable and a constant for the only record of the
\* module, and the tables are those the rebuilder left
C13_Witness ==
  /\ ev.op = "delayed_assattr" /\ Len(ev.answer.cands) = 2
  /\ ev.answer.cands[1].tag = "Uninferable" /\ ev.answer.cands[2].tag = "Const"
  /\ ~ev.answer.raises
  /\ tables = InitialTables(1, modules[1].name)
  /\ Top.j = Len(modules[1]._delayed_assattr)

(***************************************************************************)
(* Errors of the entry points (Spec).                                      *)
(***************************************************************************)
\* the kinds of error a build may raise to its caller
ClosedKinds == {"AstroidBuildingError", "AstroidSyntaxError"}

\* the last step was a call of file_build that failed
FileBuildFailed == ev.op = "file_build" /\ ev.note # "built"

\* the last step was a build that read its source and could not parse it
ParseFailed ==
  /\ ev.op \in {"file_build", "string_build"}
  /\ ev.args.data # None /\ ev.note \in ParseResults \ {"ok"}

\* the module name of a failed file_build: the one the caller gave, or the one
\* derived from the path when the caller gave none and the path was read
OffendingModname ==
  IF ev.args.modname # None THEN {ev.args.modname}
  ELSE IF ev.op = "file_build" /\ ParseFailed
    THEN {DerivedModname(ev.args.path, import_error) : import_error \in BOOLEAN}
  ELSE {None}

(***************************************************************************)
(* C14 as claimed: every failure of a from-file build to read or parse its *)
(* source reaches the caller as one of the closed kinds of error, never as *)
(* the raw failure, and the error carries the module name, the path and    *)
(* the original diagnostic in each case.                                   *)
(***************************************************************************)
C14_Original ==
  FileBuildFailed =>
    /\ outcome.kind = "error" /\ outcome.exc \in ClosedKinds
    /\ outcome.modname \in OffendingModname
    /\ ev.args.path \in {outcome.path, outcome.filename}
    /\ outcome.error = ev.note

(***************************************************************************)
(* C14 as amended: every such failure reaches the caller as one of the     *)
(* closed kinds of error, never as the raw failure.  For an unreadable     *)
(* file, an invalid or unknown encoding declaration and an unparsable      *)
(* source the error carries the module name (the one the caller gave; if   *)
(* none was given, the derived one for a parse failure and none before),   *)
(* the path and the original diagnostic.  For undecodable bytes            *)
(* (UnicodeError) it carries the path only, as the file name, and neither  *)
(* a module name nor the diagnostic.                                       *)
(***************************************************************************)
C14_ErrorsCategorized ==
  FileBuildFailed =>
    /\ outcome.kind = "error" /\ outcome.exc \in ClosedKinds
    /\ outcome.exc # ev.note
    /\ IF ev.note = "UnicodeError"
       THEN /\ outcome.filename = ev.args.path
            /\ outcome.modname = None /\ outcome.path = None /\ outcome.error = None
       ELSE /\ outcome.modname \in OffendingModname
            /\ outcome.path = ev.args.path
            /\ outcome.error = ev.note
            /\ outcome.filename = None

\* a build of M.py called with the module name M could not read the file
C14_Witness ==
  /\ FileBuildFailed /\ ev.note = "IOError" /\ ev.args.modname = "M"
  /\ outcome.exc = "AstroidBuildingError" /\ outcome.modname = "M"
  /\ outcome.path = "M.py" /\ outcome.error = "IOError"

(***************************************************************************)
(* C15 as claimed: when parsing fails, the error carries exactly the       *)
(* source text given to the build, without the newline the parser call     *)
(* appends, and the module name and path the build was called with, for    *)
(* string_build, file_build and parse.                                     *)
(***************************************************************************)
\* the source text the caller of the failed build gave: the text of the file,
\* the string, or the code given to parse
GivenText ==
  IF ev.op = "file_build" THEN FileData[ev.args.path]
  ELSE IF ev.args.code # None THEN ev.args.code
  ELSE ev.args.data

C15_Original ==
  ParseFailed =>
    /\ outcome.kind = "error" /\ outcome.exc = "AstroidSyntaxError"
    /\ outcome.source = GivenText
    /\ outcome.modname \in OffendingModname
    /\ outcome.path = ev.args.path

(***************************************************************************)
(* C15 as amended: when parsing fails, the error carries exactly the text  *)
(* handed to _data_build, without the newline the parser call appends:     *)
(* the text given to string_build, the text read from the file in          *)
(* file_build, and for parse the code after textwrap.dedent, which is not  *)
(* the code as given when that was indented as a whole.  It carries the    *)
(* module name and the path the build was called with (for file_build      *)
(* without a module name, the name derived from the path).                 *)
(***************************************************************************)
C15_ErrorFidelity ==
  ParseFailed =>
    /\ outcome.kind = "error" /\ outcome.exc = "AstroidSyntaxError"
    /\ outcome.source = ev.args.data
    /\ ev.op = "file_build" => ev.args.data = FileData[ev.args.path]
    /\ ev.args.code # None => ev.args.data = dedent[ev.args.code]
    /\ outcome.modname \in OffendingModname
    /\ outcome.path = ev.args.path

\* parse was given indented code that does not parse: the error carries the
\* dedented text
C15_Witness ==
  /\ ParseFailed /\ ev.args.code = IndentedData
  /\ outcome.source = StringData /\ outcome.source # ev.args.code
  /\ outcome.modname = "N"

(***************************************************************************)
(* The deferred lists of a module (Spec).                                  *)
(***************************************************************************)
\* the two deferred lists module b holds
Lists(mods, b) == <<mods[b]._import_from_nodes, mods[b]._delayed_assattr>>

\* the last step was the return of _post_build
Returned == ev.op = "visit_transforms" /\ outcome.kind = "module"

C16_KeptStep ==
  /\ \A b \in Built : Lists(modules', b) = Lists(modules, b)
  /\ Returned' =>
       /\ Len(outcome'.from_log) = Len(modules'[outcome'.b]._import_from_nodes)
       /\ Len(outcome'.attr_log) = Len(modules'[outcome'.b]._delayed_assattr)

NestedBuildStarts == stack # <<>> /\ Len(stack') = Len(stack) + 1

C18_NestedStep ==
  NestedBuildStarts =>
    /\ \A k \in 1..Len(stack) : Lists(modules', stack[k].b) = Lists(modules, stack[k].b)
    /\ Top'.b \notin Built /\ Top'.b = Len(modules')
    /\ \A k \in 1..Len(stack) : stack'[k].i = stack[k].i /\ stack'[k].j = stack[k].j

FutureNames(module) ==
  UNION {{rec.names[n][1] : n \in 1..Len(rec.names)} :
           rec \in {r \in Range(module._import_from_nodes) : r.modname = "__future__"}}

\* an attribute-assignment record is handed over only when the loop over the
\* import records has handed over each of them, the __future__ names are
\* recorded and every build begun since this one began is over
C19_AssattrStep ==
  ev'.op = "delayed_assattr" =>
    /\ stack # <<>> /\ Top.b = ev'.b /\ Top.pc = "resolve"
    /\ Top.i = Len(modules[Top.b]._import_from_nodes)
    /\ Top.from_log = Iota(Len(modules[Top.b]._import_from_nodes))
    /\ FutureNames(modules[Top.b]) \subseteq modules[Top.b].future_imports
    /\ \A b \in Built : b > Top.b => ~OnStack(b)

(***************************************************************************)
(* C19: the two queues are drained in a fixed order: every record of the   *)
(* import queue, with the recording of __future__ names and the nested     *)
(* builds its resolution starts, is processed before the first             *)
(* attribute-assignment record is processed.                               *)
(***************************************************************************)
C19_ImportsBeforeAssattr == [][C19_AssattrStep]_vars

\* an attribute assignment was resolved in a module whose wildcard import had
\* the manager build another module
C19_Witness ==
  /\ ev.op = "delayed_assattr"
  /\ Len(modules[ev.b]._import_from_nodes) > 0
  /\ \E b \in Built : b > ev.b /\ modules[b].name # modules[ev.b].name

(***************************************************************************)
(* An InferenceError after candidates (SpecCands).                         *)
(***************************************************************************)
\* the tables the candidates of an answer own for the attribute of a record
Targets(mods, rec, answer) ==
  {TargetTable(mods, answer.cands[k], rec.attrname) : k \in 1..Len(answer.cands)}
    \ {NoTable}

\* a step that hands over an attribute-assignment record: the node is bound in
\* the table of every candidate the oracle yielded, skipped ones before it or
\* not, an InferenceError after it or not; every binding there was stays; no
\* other table changes; an InferenceError is not raised and the loop goes on
\* with the next record
C20_PartialStep ==
  ev'.op = "delayed_assattr" =>
    \A rec \in {modules[ev'.b]._delayed_assattr[ev'.n]} :
    \A targets \in {Targets(modules, rec, ev'.answer)} :
       /\ targets \subseteq DOMAIN tables
       /\ \A t \in DOMAIN tables :
            IF t \in targets
            THEN /\ rec.attrname \in DOMAIN tables'[t]
                 /\ rec.node \in Range(tables'[t][rec.attrname])
                 /\ \A name \in DOMAIN tables[t] :
                      /\ name \in DOMAIN tables'[t]
                      /\ IF name = rec.attrname
                         THEN Range(tables[t][name]) \subseteq Range(tables'[t][name])
                         ELSE tables'[t][name] = tables[t][name]
            ELSE tables'[t] = tables[t]
       /\ outcome'.kind # "error"
       /\ stack' # <<>> /\ Top'.pc = "resolve" /\ Top'.b = ev'.b
       /\ Top'.j = ev'.n /\ Top'.attr_log = Append(Top.attr_log, ev'.n)

(***************************************************************************)
(* C20: if the oracle raises InferenceError after having yielded some      *)
(* candidates for a record, the bindings inserted for those candidates are *)
(* kept, no further candidate of the record is processed, nothing is       *)
(* raised and the following records are processed; a candidate that is     *)
(* skipped never keeps the later candidates of the record from being       *)
(* processed.                                                              *)
(***************************************************************************)
C20_PartialResultsKept == [][C20_PartialStep]_vars

\* the oracle yielded a candidate that is skipped, then a function, then raised
\* InferenceError: the node is bound in the function and the loop goes on
C20_Witness ==
  /\ ev.op = "delayed_assattr" /\ ev.answer.raises
  /\ Len(ev.answer.cands) = 2
  /\ ev.answer.cands[1].tag = "Uninferable" /\ ev.answer.cands[2].tag = "FunctionDef"
  /\ "a" \in DOMAIN tables[<<1, "meth.instance_attrs">>]
  /\ LastRecord.node \in Range(tables[<<1, "meth.instance_attrs">>]["a"])
  /\ stack # <<>> /\ Top.j = ev.n /\ ev.n < Len(modules[ev.b]._delayed_assattr)

(***************************************************************************)
(* Live modules (SpecModule).                                              *)
(***************************************************************************)
\* a call of module_build has returned a node
ModuleBuilt == outcome.kind = "module" /\ outcome.caller.op = "module_build"

(***************************************************************************)
(* C17: module_build of a live module with a source file on disk gives the *)
(* full file build (registered, every deferred record resolved,            *)
(* transforms) and does not introspect; only without a source file does it *)
(* introspect, and then the transforms are applied to the introspected     *)
(* node with no deferred resolution.  Either way the transforms are        *)
(* applied exactly once when they are enabled and never when they are not. *)
(***************************************************************************)
C17_LiveObjectMode ==
  ModuleBuilt =>
    /\ IF HasSource(outcome.caller.file)
       THEN /\ ~outcome.inspected
            /\ ev.op = "visit_transforms"
            /\ outcome.b \in Built /\ outcome.node.b = outcome.b
            /\ Registered(outcome.b)
            /\ modules[outcome.b].file = Abspath[WithPy[Splitext[outcome.caller.file][1]]]
            /\ outcome.from_log = Iota(Len(modules[outcome.b]._import_from_nodes))
            /\ outcome.attr_log = Iota(Len(modules[outcome.b]._delayed_assattr))
            /\ outcome.visited = outcome.caller.apply_transforms
       ELSE /\ outcome.inspected
            /\ ev.op = "module_build"
            /\ outcome.node \in {IntrospectedRef, ReplacedIntrospectedRef}
            /\ outcome.node = ReplacedIntrospectedRef => outcome.caller.apply_transforms
            /\ outcome.from_log = <<>> /\ outcome.attr_log = <<>>
            /\ ~outcome.visited
    /\ outcome.transforms = IF outcome.caller.apply_transforms THEN 1 ELSE 0

\* module_build of the module compiled from M.py has returned the file build of
\* M.py, with a deferred record resolved and the transforms applied once
C17_Witness ==
  /\ ModuleBuilt /\ outcome.caller.file = "M.pyc" /\ outcome.caller.apply_transforms
  /\ ~outcome.inspected /\ outcome.transforms = 1
  /\ Len(outcome.from_log) + Len(outcome.attr_log) > 0

====
